---- MODULE Spec2Model ----
(***************************************************************************)
(* A model of the django-nextjs backend template: the email-keyed User     *)
(* model and its manager, the UserFactory used by the tests, the two REST  *)
(* endpoints of the api app, and the layered settings modules              *)
(* (base, then local / test / production).                                 *)
(***************************************************************************)
EXTENDS Integers, Sequences, FiniteSets, TLC

VARIABLES
    users,        \* the users table: a sequence of rows, the row's index is its pk
    session,      \* the test client's session: the pk it was logged in as with the
                  \* auth hash stored at login, or NoSession
    instances,    \* the user objects the manager and the factory have handed
                  \* back to the tests: each keeps the pk and the password hash
                  \* it was returned with
    last,         \* the most recent operation with its arguments and its outcome
    environ,      \* os.environ of the process loading the settings
    base,         \* the namespace of config.settings.base (its objects are shared)
    profile,      \* the namespace of the one profile module the process imported
    sentry        \* whether sentry_sdk.init has been called

authVars == <<users, session, instances>>
settingsVars == <<environ, base, profile, sentry>>
vars == <<users, session, instances, last, environ, base, profile, sentry>>

----------------------------------------------------------------------------
(* Bounds *)

MaxHashes == 2
MaxChain == 3

----------------------------------------------------------------------------
(* Values *)

\* Python's None, where a text value is expected
NoneValue == <<"<None>">>

NoSession == [pk |-> 0, hash |-> <<>>]
Anonymous == 0

Max(S) == CHOOSE x \in S : \A y \in S : y <= x

\* Email addresses are sequences of characters.
ManagerEmails == { <<>>, <<"A", "@", "X">> }
SuperuserEmails == { <<>>, <<"A", "@", "X">> }
FactoryEmails == { NoneValue, <<"A", "@", "X">>, <<"A", "@", "x">> }

Lower(c) ==
    CASE c = "A" -> "a"
      [] c = "X" -> "x"
      [] OTHER -> c

\* BaseUserManager.normalize_email: lowercase what follows the last "@"
normalize_email(email) ==
    LET e == IF email = NoneValue THEN <<>> ELSE email
        ats == {i \in 1..Len(e) : e[i] = "@"}
    IN  IF ats = {} THEN e
        ELSE LET at == Max(ats)
             IN  SubSeq(e, 1, at) \o [i \in 1..(Len(e) - at) |-> Lower(e[at + i])]

\* make_password(raw): the hash of raw under a salt drawn at random. The
\* salt is passed in; two hashes are equal only if made with the same salt.
make_password(raw, salt) == <<"hashed", raw, salt>>

\* The number of password hashes made so far for the row with this pk
Hashes(table, pk) ==
    IF pk \in 1..Len(table) THEN table[pk].password[3][2] ELSE 0

\* The salt of the next hash made for the row with this pk. Every
\* set_password draws a new random salt, so no two hashes ever made are
\* equal: a salt is named by the row and by the count of the hashes made for
\* that row, which differs from every salt drawn before.
FreshSalt(table, pk) == <<pk, Hashes(table, pk) + 1>>

\* The columns of the users table. There is no username column.
UserFields ==
    {"email", "first_name", "last_name", "password",
     "is_staff", "is_superuser", "is_active"}

\* AbstractUser's field defaults
FieldDefault(f) ==
    CASE f = "email" -> <<>>
      [] f = "first_name" -> ""
      [] f = "last_name" -> ""
      [] f = "password" -> <<>>
      [] f = "is_staff" -> FALSE
      [] f = "is_superuser" -> FALSE
      [] f = "is_active" -> TRUE

\* User(**kwargs): an unsaved instance
User(kwargs) ==
    [f \in UserFields |-> IF f \in DOMAIN kwargs THEN kwargs[f] ELSE FieldDefault(f)]

\* a __str__ that returns the normalised address instead of the stored one
User__str__Normalised(self) == normalize_email(self.email)

\* User.__str__
User__str__(self) == self.email

\* dict.setdefault and dict update
setdefault(d, k, v) ==
    IF k \in DOMAIN d THEN d
    ELSE [x \in DOMAIN d \cup {k} |-> IF x = k THEN v ELSE d[x]]

Update(d, k, v) == [x \in DOMAIN d \cup {k} |-> IF x = k THEN v ELSE d[x]]

\* an email column declared without unique=True
IntegrityOkNotUnique(table, row) == row.email # NoneValue

\* email = models.EmailField(unique=True): the database refuses a NULL email
\* and a second row with an email that is already there
IntegrityOk(table, row) ==
    /\ row.email # NoneValue
    /\ \A i \in 1..Len(table) : table[i].email # row.email

EmailPk(table, email) ==
    LET hit == {i \in 1..Len(table) : table[i].email = email}
    IN  IF hit = {} THEN 0 ELSE CHOOSE i \in hit : TRUE

----------------------------------------------------------------------------
(* users.managers.UserManager *)

\* Outcome of a manager call: what is raised (or "ok"), the record returned
\* and the table afterwards.
Raise(err, table) == [outcome |-> err, ret |-> <<>>, pk |-> 0, table |-> table]

_create_user(table, email, password, extra_fields, salt) ==
    IF email = <<>> \/ email = NoneValue
    THEN Raise("ValueError", table)
    ELSE LET user == [User(Update(extra_fields, "email", normalize_email(email)))
                        EXCEPT !.password = make_password(password, salt)]
         IN  IF IntegrityOk(table, user)
             THEN [outcome |-> "ok", ret |-> user, pk |-> Len(table) + 1,
                   table |-> Append(table, user)]
             ELSE Raise("IntegrityError", table)

create_user(table, email, password, extra_fields, salt) ==
    LET e1 == setdefault(extra_fields, "is_staff", FALSE)
        e2 == setdefault(e1, "is_superuser", FALSE)
    IN  _create_user(table, email, password, e2, salt)

\* a create_superuser that forces nothing and checks nothing
create_superuserUnchecked(table, email, password, extra_fields, salt) ==
    _create_user(table, email, password,
                 setdefault(setdefault(extra_fields, "is_staff", TRUE),
                            "is_superuser", TRUE), salt)

create_superuser(table, email, password, extra_fields, salt) ==
    LET e1 == setdefault(extra_fields, "is_staff", TRUE)
        e2 == setdefault(e1, "is_superuser", TRUE)
    IN  IF e2["is_staff"] # TRUE THEN Raise("ValueError", table)
        ELSE IF e2["is_superuser"] # TRUE THEN Raise("ValueError", table)
        ELSE _create_user(table, email, password, e2, salt)

----------------------------------------------------------------------------
(* users.tests.factories.UserFactory *)

FakerFirstName == "Ann"
FakerLastName == "Lee"

\* UserFactory(**kwargs): get_or_create on the email, then
\* set_password("testpass123"), which hashes under a new salt, and a second
\* save: the row's password hash changes also when the row was there before.
UserFactory(table, kwargs, salt) ==
    LET k1 == setdefault(kwargs, "first_name", FakerFirstName)
        k2 == setdefault(k1, "last_name", FakerLastName)
        found == EmailPk(table, k2["email"])
        hashed == make_password("testpass123", salt)
    IN  IF found # 0
        THEN [outcome |-> "ok", pk |-> found,
              ret |-> [table[found] EXCEPT !.password = hashed],
              table |-> [table EXCEPT ![found].password = hashed]]
        ELSE LET user == User(k2)
             IN  IF IntegrityOk(table, user)
                 THEN [outcome |-> "ok", pk |-> Len(table) + 1,
                       ret |-> [user EXCEPT !.password = hashed],
                       table |-> Append(table, [user EXCEPT !.password = hashed])]
                 ELSE Raise("IntegrityError", table)

----------------------------------------------------------------------------
(* The API app: rest_framework's api_view around the two views *)

Methods == {"GET", "POST", "OPTIONS"}
Paths == {"health/", "users/me/"}

\* users.serializers.UserSerializer(user).data
UserSerializer(table, pk) ==
    [id |-> pk,
     email |-> table[pk].email,
     first_name |-> table[pk].first_name,
     last_name |-> table[pk].last_name]

\* user.get_session_auth_hash(): a keyed hash of the password hash the user
\* object holds
get_session_auth_hash(user) == user.password

\* The backend finds a user for the session: the row exists and is active
BackendUser(table, sess) ==
    sess.pk \in 1..Len(table) /\ table[sess.pk].is_active

\* The session's auth hash verifies against the row's current password hash
SessionVerifies(table, sess) ==
    BackendUser(table, sess) /\ sess.hash = get_session_auth_hash(table[sess.pk])

\* request.user as the authentication middleware resolves it from the
\* session: the logged-in row if it exists, is active and the session's auth
\* hash still matches its password hash, else anonymous
request_user(table, sess) ==
    IF SessionVerifies(table, sess) THEN sess.pk ELSE Anonymous

\* The session after a request: both views read request.user
\* (authentication runs before the permission check), and it is flushed when the backend
\* found the user and the session's auth hash did not verify
session_after(table, sess) ==
    IF BackendUser(table, sess) /\ ~SessionVerifies(table, sess)
    THEN NoSession ELSE sess

AllowAny(user) == TRUE
IsAuthenticated(user) == user # Anonymous

Response(status, data, ran) == [status |-> status, data |-> data, ran |-> ran]

\* NotAuthenticated: 401 with a WWW-Authenticate header, 403 without one
NotAuthenticated(header) ==
    Response(IF header THEN 401 ELSE 403,
             [detail |-> "Authentication credentials were not provided."],
             "none")

\* a dispatch that hands every method to the view
DispatchAnyMethod(allowed, permitted, method, header, name, data) ==
    IF ~permitted THEN NotAuthenticated(header)
    ELSE Response(200, data, name)

\* APIView.dispatch for a view wrapped by @api_view(["GET"]): the permission
\* check comes first, then the handler for the method; OPTIONS is answered by
\* the framework's metadata handler, any other method is not allowed.
Dispatch(allowed, permitted, method, header, name, data) ==
    IF ~permitted THEN NotAuthenticated(header)
    ELSE IF method \in allowed THEN Response(200, data, name)
    ELSE IF method = "OPTIONS" THEN Response(200, [name |-> name], "none")
    ELSE Response(405, [detail |-> "Method not allowed."], "none")

\* health_check behind IsAuthenticated
health_checkAuthenticated(table, method, user, header) ==
    Dispatch({"GET"}, IsAuthenticated(user), method, header, "health_check",
             [status |-> "ok", message |-> "Django API is running"])

health_check(table, method, user, header) ==
    Dispatch({"GET"}, AllowAny(user), method, header, "health_check",
             [status |-> "ok", message |-> "Django API is running"])

\* current_user without the permission class, serialising the first row
current_userFirstRow(table, method, user, header) ==
    Dispatch({"GET"}, Len(table) > 0, method, header, "current_user",
             IF Len(table) = 0 THEN <<>> ELSE UserSerializer(table, 1))

current_user(table, method, user, header) ==
    Dispatch({"GET"}, IsAuthenticated(user), method, header, "current_user",
             IF user = Anonymous THEN <<>> ELSE UserSerializer(table, user))

\* api.urls.urlpatterns
urlpatterns(table, path, method, user, header) ==
    CASE path = "health/" -> health_check(table, method, user, header)
      [] path = "users/me/" -> current_user(table, method, user, header)
      [] OTHER -> Response(404, [detail |-> "Not found."], "none")

----------------------------------------------------------------------------
(* Operations on the users table and the API *)

\* Keyword arguments the callers pass
UserExtraFields == { <<>>, [is_active |-> FALSE] }

SuperuserExtraFields ==
    { <<>>,
      [is_staff |-> FALSE],
      [is_superuser |-> FALSE],
      [is_staff |-> TRUE, is_superuser |-> TRUE] }

FactoryKwargs ==
    { <<>>, [is_staff |-> TRUE, is_superuser |-> TRUE] }

Passwords == {"pw"}

\* The bound on the hashes made for one row
Fits(r) == \A i \in 1..Len(r.table) : Hashes(r.table, i) <= MaxHashes

\* The object a call hands back, as the tests keep it
Instance(r) == [pk |-> r.pk, password |-> r.ret.password]

Returned(r) == IF r.outcome = "ok" THEN {Instance(r)} ELSE {}

NoOp == [op |-> "init"]

CreateUser ==
    \E email \in ManagerEmails, password \in Passwords, extra \in UserExtraFields :
        LET r == create_user(users, email, password, extra,
                             FreshSalt(users, Len(users) + 1))
        IN  /\ Fits(r)
            /\ users' = r.table
            /\ last' = [op |-> "create_user", email |-> email, extra |-> extra,
                        outcome |-> r.outcome, ret |-> r.ret, pk |-> r.pk]
            /\ instances' = instances \cup Returned(r)
            /\ UNCHANGED <<session, settingsVars>>

CreateSuperuser ==
    \E email \in SuperuserEmails, password \in Passwords, extra \in SuperuserExtraFields :
        LET r == create_superuser(users, email, password, extra,
                                  FreshSalt(users, Len(users) + 1))
        IN  /\ Fits(r)
            /\ users' = r.table
            /\ last' = [op |-> "create_superuser", email |-> email, extra |-> extra,
                        outcome |-> r.outcome, ret |-> r.ret, pk |-> r.pk]
            /\ instances' = instances \cup Returned(r)
            /\ UNCHANGED <<session, settingsVars>>

Factory ==
    \E email \in FactoryEmails, kwargs \in FactoryKwargs :
        LET found == EmailPk(users, email)
            pk == IF found # 0 THEN found ELSE Len(users) + 1
            r == UserFactory(users, Update(kwargs, "email", email),
                             FreshSalt(users, pk))
        IN  /\ Fits(r)
            /\ users' = r.table
            /\ last' = [op |-> "UserFactory", email |-> email, extra |-> kwargs,
                        outcome |-> r.outcome, ret |-> r.ret, pk |-> r.pk,
                        before |-> EmailPk(users, email)]
            /\ instances' = instances \cup Returned(r)
            /\ UNCHANGED <<session, settingsVars>>

\* client.force_login(user), with a user object an earlier call handed back
\* (conftest's fixtures pass the object UserFactory returned): the session
\* stores the auth hash of that object, which is not the row's when a later
\* UserFactory call on the same address has hashed the row's password again
ForceLogin ==
    \E user \in instances :
        /\ session' = [pk |-> user.pk, hash |-> get_session_auth_hash(user)]
        /\ last' = [op |-> "force_login", pk |-> user.pk,
                    stale |-> user.password # users[user.pk].password]
        /\ UNCHANGED <<users, instances, settingsVars>>

\* client.generic(method, path); header: whether the first configured
\* authenticator of the deployment sends WWW-Authenticate
Request ==
    \E method \in Methods, path \in Paths, header \in BOOLEAN :
        LET user == request_user(users, session)
        IN  /\ last' = [op |-> "request", method |-> method, path |-> path,
                        user |-> user,
                        response |-> urlpatterns(users, path, method, user, header)]
            /\ session' = session_after(users, session)
            /\ UNCHANGED <<users, instances, settingsVars>>

\* Instances str() is taken of: the saved rows and some unsaved ones
UnsavedInstances ==
    { User(k) : k \in
        { [email |-> <<"b", "@", "x">>, last_name |-> "Lee", is_staff |-> TRUE],
          [email |-> <<>>, first_name |-> "Ann", is_superuser |-> TRUE,
           is_active |-> FALSE] } }

Str ==
    \E saved \in BOOLEAN :
      \E instance \in (IF saved THEN {users[i] : i \in 1..Len(users)}
                       ELSE UnsavedInstances) :
        /\ last' = [op |-> "str", saved |-> saved, instance |-> instance,
                    out |-> User__str__(instance)]
        /\ UNCHANGED <<users, session, instances, settingsVars>>

InitAuth ==
    /\ users = <<>>
    /\ session = NoSession
    /\ instances = {}
    /\ last = NoOp

NextAuth == CreateUser \/ CreateSuperuser \/ Factory \/ ForceLogin \/ Request \/ Str

----------------------------------------------------------------------------
(* config.settings: the base module and the three profiles *)

Unset == "<unset>"

Security == "django.middleware.security.SecurityMiddleware"
WhiteNoise == "whitenoise.middleware.WhiteNoiseMiddleware"
DebugToolbar == "debug_toolbar.middleware.DebugToolbarMiddleware"
Mailgun == "anymail.backends.mailgun.EmailBackend"

BaseMiddlewareNames ==
    { Security,
      "django.contrib.sessions.middleware.SessionMiddleware",
      "django.middleware.common.CommonMiddleware" }

\* Every chain config.settings.base may define, up to MaxChain entries
BaseChains ==
    UNION { [1..n -> BaseMiddlewareNames] : n \in 0..MaxChain }

\* The namespace of config.settings.base
BaseSettings(chain) ==
    [DEBUG |-> FALSE,
     EMAIL_BACKEND |-> "django.core.mail.backends.smtp.EmailBackend",
     INSTALLED_APPS |-> <<"django.contrib.auth", "rest_framework", "users", "api">>,
     MIDDLEWARE |-> chain,
     DATABASES |-> [default |-> [ENGINE |-> "django.db.backends.postgresql"]],
     TEMPLATES |-> <<[BACKEND |-> "django.template.backends.django.DjangoTemplates",
                      OPTIONS |-> [context_processors |-> <<>>]]>>]

BaseKeys ==
    {"DEBUG", "EMAIL_BACKEND", "INSTALLED_APPS", "MIDDLEWARE", "DATABASES", "TEMPLATES"}

EnvValues(name) ==
    CASE name = "DJANGO_SECRET_KEY" -> {Unset, "s3cret"}
      [] name = "REDIS_URL" -> {Unset, "redis://cache:6379/1"}
      [] name = "SENTRY_DSN" -> {Unset, "", "https://key@sentry.example/1"}
      [] name = "MAILGUN_API_KEY" -> {Unset, "key-1"}
      [] name = "MAILGUN_DOMAIN" -> {Unset, "mg.example.com"}
      [] name = "CONN_MAX_AGE" -> {Unset, "0"}
      [] name = "DJANGO_EMAIL_BACKEND" -> {Unset, "django.core.mail.backends.dummy.EmailBackend"}

EnvNames ==
    {"DJANGO_SECRET_KEY", "REDIS_URL", "SENTRY_DSN", "MAILGUN_API_KEY",
     "MAILGUN_DOMAIN", "CONN_MAX_AGE", "DJANGO_EMAIL_BACKEND"}

Environs ==
    { [DJANGO_SECRET_KEY |-> a, REDIS_URL |-> b, SENTRY_DSN |-> c,
       MAILGUN_API_KEY |-> d, MAILGUN_DOMAIN |-> f, CONN_MAX_AGE |-> g,
       DJANGO_EMAIL_BACKEND |-> h] :
        a \in EnvValues("DJANGO_SECRET_KEY"), b \in EnvValues("REDIS_URL"),
        c \in EnvValues("SENTRY_DSN"), d \in EnvValues("MAILGUN_API_KEY"),
        f \in EnvValues("MAILGUN_DOMAIN"), g \in EnvValues("CONN_MAX_AGE"),
        h \in EnvValues("DJANGO_EMAIL_BACKEND") }

\* environ.Env.__call__: the variable's value, else the default
env(e, name, default) == IF e[name] = Unset THEN default ELSE e[name]

\* a call without a default raises ImproperlyConfigured when the variable is unset
Missing(e, name) == e[name] = Unset

\* env.int
ToInt(text) == CASE text = "0" -> 0 [] OTHER -> -1

CONN_MAX_AGE_DEFAULT == 60

\* list.index: the first position of x, ValueError (0 here) when absent
Index(list, x) ==
    LET at == {i \in 1..Len(list) : list[i] = x}
    IN  IF at = {} THEN 0 ELSE CHOOSE i \in at : \A j \in at : i <= j

\* [*chain[:i + 1], WhiteNoise, *chain[i + 1:]] for the 1-based position at
InsertAfter(chain, at, x) ==
    SubSeq(chain, 1, at) \o <<x>> \o SubSeq(chain, at + 1, Len(chain))

\* The result of importing a profile module: the namespace of the module (the
\* names it binds itself; every other base name is the base module's object),
\* the base namespace afterwards and whether sentry was initialised.
Loaded(name, own, b, s) ==
    [profile |-> [name |-> name, status |-> "ok", own |-> own], base |-> b, sentry |-> s]

Failed(name, err, b) ==
    [profile |-> [name |-> name, status |-> err, own |-> <<>>], base |-> b,
     sentry |-> [initialised |-> FALSE, dsn |-> ""]]

NoSentry == [initialised |-> FALSE, dsn |-> ""]

\* what socket.gethostbyname_ex may answer with (it may also raise gaierror)
HostIps == { <<>>, << <<172, 18, 0, 3>> >> }

\* ".".join(ip.split(".")[:-1] + ["1"])
GatewayOf(ip) == SubSeq(ip, 1, Len(ip) - 1) \o <<1>>

\* config/settings/local.py
local(e, b, resolves, ips) ==
    LET apps1 == b.INSTALLED_APPS \o <<"debug_toolbar">>
        mw == b.MIDDLEWARE \o <<DebugToolbar>>
        b1 == [b EXCEPT !.INSTALLED_APPS = apps1, !.MIDDLEWARE = mw]
        b2 == [b1 EXCEPT !.INSTALLED_APPS = apps1 \o <<"django_extensions">>]
        own == [DEBUG |-> TRUE,
                SECRET_KEY |-> env(e, "DJANGO_SECRET_KEY",
                    "django-insecure-local-dev-key-change-in-production-!!!"),
                ALLOWED_HOSTS |-> <<"localhost", "0.0.0.0", "127.0.0.1", "*">>,
                CACHES |-> [default |->
                    [BACKEND |-> "django.core.cache.backends.redis.RedisCache",
                     LOCATION |-> env(e, "REDIS_URL", "redis://redis:6379/0")]],
                EMAIL_BACKEND |-> env(e, "DJANGO_EMAIL_BACKEND",
                    "django.core.mail.backends.console.EmailBackend"),
                INTERNAL_IPS |-> << <<127, 0, 0, 1>>, <<10, 0, 2, 2>> >>
                    \o [i \in 1..Len(ips) |-> GatewayOf(ips[i])],
                CELERY_TASK_EAGER_PROPAGATES |-> TRUE,
                CORS_ALLOWED_ORIGINS |-> <<"http://localhost:3000", "http://127.0.0.1:3000">>,
                CORS_ALLOW_CREDENTIALS |-> TRUE]
    IN  IF ~resolves THEN Failed("local", "gaierror", b1)
        ELSE Loaded("local", own, b2, NoSentry)

\* a test profile that edits the base DATABASES dictionary in place
testInPlaceDatabases(e, b) ==
    LET b1 == [b EXCEPT !.TEMPLATES[1].OPTIONS = Update(@, "debug", TRUE),
                        !.DATABASES.default = Update(@, "NAME", ":memory:")]
    IN  Loaded("test", [DEBUG |-> FALSE], b1, NoSentry)

\* config/settings/test.py
test(e, b) ==
    LET options == Update(b.TEMPLATES[1].OPTIONS, "debug", TRUE)
        b1 == [b EXCEPT !.TEMPLATES[1].OPTIONS = options]
        own == [SECRET_KEY |-> env(e, "DJANGO_SECRET_KEY",
                    "django-insecure-test-key-for-testing-only-!!!"),
                DEBUG |-> FALSE,
                ALLOWED_HOSTS |-> <<"localhost", "testserver", "127.0.0.1">>,
                TEST_RUNNER |-> "django.test.runner.DiscoverRunner",
                PASSWORD_HASHERS |-> <<"django.contrib.auth.hashers.MD5PasswordHasher">>,
                EMAIL_BACKEND |-> "django.core.mail.backends.locmem.EmailBackend",
                MEDIA_URL |-> "http://media.testserver/",
                DATABASES |-> [default |->
                    [ENGINE |-> "django.db.backends.sqlite3", NAME |-> ":memory:"]],
                CELERY_TASK_ALWAYS_EAGER |-> TRUE,
                CELERY_TASK_EAGER_PROPAGATES |-> TRUE]
    IN  Loaded("test", own, b1, NoSentry)

\* a splice that puts WhiteNoise in front of SecurityMiddleware
ProductionMiddlewareBefore(chain) ==
    IF Index(chain, Security) = 0
    THEN [error |-> "ValueError", value |-> <<>>]
    ELSE [error |-> "", value |-> InsertAfter(chain, Index(chain, Security) - 1, WhiteNoise)]

\* a splice on str.find semantics: no error when SecurityMiddleware is absent
ProductionMiddlewareSilent(chain) ==
    [error |-> "", value |-> InsertAfter(chain, Index(chain, Security), WhiteNoise)]

\* production.py, MIDDLEWARE: WhiteNoise right after SecurityMiddleware;
\* list.index raises ValueError when SecurityMiddleware is not in the chain
ProductionMiddleware(chain) ==
    IF Index(chain, Security) = 0
    THEN [error |-> "ValueError", value |-> <<>>]
    ELSE [error |-> "", value |-> InsertAfter(chain, Index(chain, Security), WhiteNoise)]

\* production.py, django-anymail
ProductionEmail(e) ==
    [EMAIL_BACKEND |-> Mailgun,
     ANYMAIL |-> [MAILGUN_API_KEY |-> env(e, "MAILGUN_API_KEY", ""),
                  MAILGUN_SENDER_DOMAIN |-> env(e, "MAILGUN_DOMAIN", "")]]

\* Sentry initialised whenever the variable is set, even to the empty string
ProductionSentryWhenSet(e) ==
    IF ~Missing(e, "SENTRY_DSN")
    THEN [initialised |-> TRUE, dsn |-> e["SENTRY_DSN"]] ELSE NoSentry

\* production.py, Sentry
ProductionSentry(e) ==
    LET dsn == env(e, "SENTRY_DSN", "")
    IN  IF dsn # "" THEN [initialised |-> TRUE, dsn |-> dsn] ELSE NoSentry

\* config/settings/production.py
production(e, b) ==
    LET age == IF Missing(e, "CONN_MAX_AGE") THEN CONN_MAX_AGE_DEFAULT
               ELSE ToInt(e["CONN_MAX_AGE"])
        b1 == [b EXCEPT !.DATABASES.default = Update(@, "CONN_MAX_AGE", age)]
        mail == ProductionEmail(e)
        mw == ProductionMiddleware(b.MIDDLEWARE)
        own == [SECRET_KEY |-> e["DJANGO_SECRET_KEY"],
                ALLOWED_HOSTS |-> <<"example.com">>,
                CACHES |-> [default |->
                    [BACKEND |-> "django.core.cache.backends.redis.RedisCache",
                     LOCATION |-> e["REDIS_URL"]]],
                SESSION_COOKIE_SECURE |-> TRUE,
                CSRF_COOKIE_SECURE |-> TRUE,
                MIDDLEWARE |-> mw.value,
                EMAIL_BACKEND |-> mail.EMAIL_BACKEND,
                ANYMAIL |-> mail.ANYMAIL,
                CORS_ALLOW_CREDENTIALS |-> TRUE,
                SENTRY_DSN |-> env(e, "SENTRY_DSN", "")]
    IN  IF Missing(e, "DJANGO_SECRET_KEY")
        THEN Failed("production", "ImproperlyConfigured", b)
        ELSE IF Missing(e, "REDIS_URL")
        THEN Failed("production", "ImproperlyConfigured", b1)
        ELSE IF mw.error # ""
        THEN Failed("production", mw.error, b1)
        ELSE Loaded("production", own, b1, ProductionSentry(e))

\* settings.<key> as the process sees it once the profile is imported
Setting(key) ==
    IF key \in DOMAIN profile.own THEN profile.own[key] ELSE base[key]

NotLoaded == [name |-> "none", status |-> "", own |-> <<>>]

Import(r) ==
    /\ profile = NotLoaded
    /\ profile' = r.profile
    /\ base' = r.base
    /\ sentry' = r.sentry
    /\ UNCHANGED <<environ, authVars, last>>

LoadLocal ==
    \E resolves \in BOOLEAN, ips \in HostIps :
        Import(local(environ, base, resolves, ips))

LoadTest == Import(test(environ, base))

LoadProduction == Import(production(environ, base))

InitSettings ==
    /\ environ \in Environs
    /\ \E chain \in BaseChains : base = BaseSettings(chain)
    /\ profile = NotLoaded
    /\ sentry = NoSentry

NextSettings == LoadLocal \/ LoadTest \/ LoadProduction

----------------------------------------------------------------------------
(* Specifications *)

\* The users table and the API, with the settings left as they are
Init ==
    /\ InitAuth
    /\ environ = [n \in EnvNames |-> Unset]
    /\ base = BaseSettings(<<Security>>)
    /\ profile = NotLoaded
    /\ sentry = NoSentry

Next == NextAuth

Spec == Init /\ [][Next]_vars

\* A process importing one settings profile
SettingsInit ==
    /\ InitSettings
    /\ users = <<>>
    /\ session = NoSession
    /\ instances = {}
    /\ last = NoOp

SettingsNext == NextSettings

SettingsSpec == SettingsInit /\ [][SettingsNext]_vars

----------------------------------------------------------------------------
(* Properties *)

Range(f) == {f[i] : i \in DOMAIN f}

IsRequest(method, path) ==
    last.op = "request" /\ last.method = method /\ last.path = path

SessionAuthenticated ==
    /\ session.pk \in 1..Len(users)
    /\ users[session.pk].is_active
    /\ users[session.pk].password = session.hash

\* C1: GET /users/me/ answers 401 or 403 with no identity record when the
\* session is not authenticated, and 200 with the serialisation of the
\* session's own user, and of no other stored user, when it is.
C1_CurrentUserGated ==
    IsRequest("GET", "users/me/") =>
        IF SessionAuthenticated
        THEN /\ last.response.status = 200
             /\ last.response.data = UserSerializer(users, session.pk)
             /\ \A pk \in 1..Len(users) :
                    pk # session.pk => last.response.data # UserSerializer(users, pk)
        ELSE /\ last.response.status \in {401, 403}
             /\ "email" \notin DOMAIN last.response.data
             /\ \A pk \in 1..Len(users) :
                    last.response.data # UserSerializer(users, pk)

C1_Witness ==
    /\ IsRequest("GET", "users/me/")
    /\ Len(users) = 2
    /\ session.pk = 2
    /\ last.response.status = 200
    /\ last.response.data.email = users[2].email

\* C2: GET /health/ answers 200 with the fixed body for every caller and
\* every state of the users table.
C2_HealthAlwaysOk ==
    IsRequest("GET", "health/") =>
        /\ last.response.status = 200
        /\ last.response.data = [status |-> "ok", message |-> "Django API is running"]

C2_Witness ==
    /\ IsRequest("GET", "health/")
    /\ SessionAuthenticated
    /\ users[session.pk].is_superuser
    /\ Len(users) = 2
    /\ last.response.status = 200

ExplicitFalse(extra) ==
    \/ ("is_staff" \in DOMAIN extra /\ extra["is_staff"] = FALSE)
    \/ ("is_superuser" \in DOMAIN extra /\ extra["is_superuser"] = FALSE)

\* C3: a create_superuser call given is_staff=False or is_superuser=False
\* raises, returns nothing and leaves the table as it was; a record it
\* returns has is_staff and is_superuser true and is the row it appended.
C3_SuperuserFlags ==
    [][ last'.op = "create_superuser" =>
          /\ ExplicitFalse(last'.extra) =>
                /\ last'.outcome = "ValueError"
                /\ last'.ret = <<>>
                /\ users' = users
          /\ last'.outcome = "ok" =>
                /\ last'.ret.is_staff /\ last'.ret.is_superuser
                /\ users' = Append(users, last'.ret) ]_vars

C3_Witness ==
    /\ last.op = "create_superuser"
    /\ last.extra = [is_superuser |-> FALSE]
    /\ last.email = <<"A", "@", "X">>
    /\ last.outcome = "ValueError"
    /\ Len(users) = 1

\* C4: no two rows share an email, no row has a NULL email or a username
\* column, and a UserFactory call with an email that is already stored
\* returns that row.
C4_EmailIsIdentity ==
    /\ \A i, j \in 1..Len(users) : i # j => users[i].email # users[j].email
    /\ \A i \in 1..Len(users) :
          users[i].email # NoneValue /\ "username" \notin DOMAIN users[i]
    /\ (last.op = "UserFactory" /\ last.before # 0) =>
          /\ last.outcome = "ok"
          /\ last.pk = last.before
          /\ users[last.pk] = last.ret
          /\ last.ret.email = last.email

C4_Witness ==
    /\ last.op = "UserFactory"
    /\ last.before = 1
    /\ Len(users) = 2
    /\ users[1].password = make_password("testpass123", <<1, 2>>)
    /\ users[1].first_name = ""

\* C7: str(user) is the user's email, saved or not, whatever its names and flags.
C7_StrIsEmail ==
    last.op = "str" => last.out = last.instance.email

C7_Witness ==
    /\ last.op = "str"
    /\ last.saved
    /\ last.instance.email = <<"A", "@", "X">>
    /\ last.instance.is_staff
    /\ last.out = <<"A", "@", "X">>

Rejected(status) == status \in {401, 403, 405}

\* C10 as stated: no request changes the table, and on both endpoints every
\* method other than GET is rejected without running the view.
C10_OnlyGetAccepted ==
    (last.op = "request" /\ last.path \in {"health/", "users/me/"}
        /\ last.method # "GET") =>
        /\ Rejected(last.response.status)
        /\ last.response.ran = "none"

\* C10, amended: no request changes the table; a view body runs only for
\* GET; OPTIONS is answered by the framework (200 once the permission check
\* passes) and every other method is rejected, the view body not run.
C10_ReadOnlyApi ==
    [][ last'.op = "request" =>
          /\ users' = users
          /\ last'.response.ran # "none" => last'.method = "GET"
          /\ (last'.path \in {"health/", "users/me/"}
                /\ last'.method \notin {"GET", "OPTIONS"}) =>
                    Rejected(last'.response.status)
          /\ (last'.path \in {"health/", "users/me/"} /\ last'.method = "OPTIONS") =>
                /\ last'.response.status \in {200, 401, 403}
                /\ last'.response.status = 200 <=>
                      (last'.path = "health/" \/ SessionAuthenticated) ]_vars

C10_Witness ==
    /\ IsRequest("POST", "users/me/")
    /\ SessionAuthenticated
    /\ Len(users) = 2
    /\ last.response.status = 405
    /\ last.response.ran = "none"

ProductionLoaded == profile.name = "production" /\ profile.status = "ok"

Count(list, x) == Cardinality({i \in 1..Len(list) : list[i] = x})

Without(list, at) == SubSeq(list, 1, at - 1) \o SubSeq(list, at + 1, Len(list))

\* C5: the production MIDDLEWARE holds WhiteNoise exactly once, right after
\* the base chain's SecurityMiddleware, and is the base chain otherwise.
C5_WhiteNoiseAfterSecurity ==
    ProductionLoaded =>
        LET mw == Setting("MIDDLEWARE")
            chain == base.MIDDLEWARE
        IN  /\ Count(mw, WhiteNoise) = 1
            /\ \E i \in 1..Len(chain) :
                  /\ chain[i] = Security
                  /\ mw[i] = Security
                  /\ mw[i + 1] = WhiteNoise
                  /\ Without(mw, i + 1) = chain

C5_Witness ==
    /\ ProductionLoaded
    /\ Len(base.MIDDLEWARE) = 3
    /\ base.MIDDLEWARE[2] = Security
    /\ Count(base.MIDDLEWARE, Security) = 1
    /\ Setting("MIDDLEWARE")[3] = WhiteNoise

ReachesMiddleware ==
    /\ profile.name = "production"
    /\ environ["DJANGO_SECRET_KEY"] # Unset
    /\ environ["REDIS_URL"] # Unset

\* C8 as stated: without SecurityMiddleware in the base chain the production
\* profile loads without an error and WhiteNoise is not inserted.
C8_SilentFailure ==
    (ReachesMiddleware /\ Security \notin Range(base.MIDDLEWARE)) =>
        /\ profile.status = "ok"
        /\ WhiteNoise \notin Range(Setting("MIDDLEWARE"))

\* C8, amended: without SecurityMiddleware in the base chain loading the
\* production profile fails with ValueError; no settings module results and
\* WhiteNoise is inserted nowhere.
C8_LoadFails ==
    (ReachesMiddleware /\ Security \notin Range(base.MIDDLEWARE)) =>
        /\ profile.status = "ValueError"
        /\ profile.own = <<>>
        /\ WhiteNoise \notin Range(Setting("MIDDLEWARE"))

C8_Witness ==
    /\ ReachesMiddleware
    /\ Len(base.MIDDLEWARE) = 2
    /\ Security \notin Range(base.MIDDLEWARE)
    /\ profile.status = "ValueError"

Present(name) == environ[name] \notin {Unset, ""}

\* C9 as stated: Sentry is initialised iff SENTRY_DSN is non-empty, and
\* Mailgun is the EMAIL_BACKEND only when its credentials are present.
C9_IntegrationsConditional ==
    ProductionLoaded =>
        /\ sentry.initialised <=> Present("SENTRY_DSN")
        /\ Setting("EMAIL_BACKEND") = Mailgun =>
              Present("MAILGUN_API_KEY") /\ Present("MAILGUN_DOMAIN")

\* C9, amended: Sentry is initialised iff SENTRY_DSN is non-empty (with that
\* DSN); Mailgun is the EMAIL_BACKEND whatever the environment, and only its
\* credentials come from the environment, empty when a variable is unset.
C9_SentryConditionalMailgunAlways ==
    ProductionLoaded =>
        /\ sentry.initialised <=> Present("SENTRY_DSN")
        /\ sentry.initialised => sentry.dsn = environ["SENTRY_DSN"]
        /\ Setting("EMAIL_BACKEND") = Mailgun
        /\ Setting("ANYMAIL").MAILGUN_API_KEY =
              (IF Present("MAILGUN_API_KEY") THEN environ["MAILGUN_API_KEY"] ELSE "")
        /\ Setting("ANYMAIL").MAILGUN_SENDER_DOMAIN =
              (IF Present("MAILGUN_DOMAIN") THEN environ["MAILGUN_DOMAIN"] ELSE "")

C9_Witness ==
    /\ ProductionLoaded
    /\ environ["SENTRY_DSN"] = ""
    /\ ~sentry.initialised
    /\ environ["MAILGUN_API_KEY"] = Unset
    /\ Setting("EMAIL_BACKEND") = Mailgun

Imports == profile.name = "none" /\ profile'.name # "none"

\* C6 as stated: a profile that loads leaves every base value as it was; its
\* own values are the base values or values it binds itself.
C6_WholesaleOnly ==
    [][ (Imports /\ profile'.status = "ok") => base' = base ]_vars

\* The base objects a profile edits in place
InPlaceKeys(name) ==
    CASE name = "local" -> {"INSTALLED_APPS", "MIDDLEWARE"}
      [] name = "production" -> {"DATABASES"}
      [] name = "test" -> {"TEMPLATES"}

IsPrefix(s, t) == Len(s) <= Len(t) /\ SubSeq(t, 1, Len(s)) = s

Restrict(d, keys) == [k \in keys |-> d[k]]

\* how base value new came from old by the edit the profile makes in place
EditedInPlace(name, key, old, new) ==
    CASE name = "local" -> IsPrefix(old, new)
      [] name = "production" ->
            /\ DOMAIN new = {"default"}
            /\ Restrict(new.default, DOMAIN new.default \ {"CONN_MAX_AGE"})
                   = old.default
      [] name = "test" ->
            /\ Len(new) = Len(old)
            /\ new = [old EXCEPT ![1].OPTIONS = Update(@, "debug", TRUE)]

\* C6, amended: importing a profile leaves a base value as it was, except
\* INSTALLED_APPS and MIDDLEWARE under local (appended to), DATABASES under
\* production (CONN_MAX_AGE set) and TEMPLATES under test (debug set): these
\* the profile edits in place, so it keeps the base object under that name
\* and the base module's value changes with it.
C6_WholesaleOrInPlace ==
    [][ Imports =>
          \A key \in BaseKeys :
              \/ base'[key] = base[key]
              \/ /\ key \in InPlaceKeys(profile'.name)
                 /\ key \notin DOMAIN profile'.own
                 /\ EditedInPlace(profile'.name, key, base[key], base'[key]) ]_vars

C6_Witness ==
    /\ profile.name = "local"
    /\ profile.status = "ok"
    /\ Len(base.MIDDLEWARE) = 3
    /\ base.MIDDLEWARE[3] = DebugToolbar
    /\ Setting("MIDDLEWARE") = base.MIDDLEWARE
    /\ Setting("DEBUG") /\ ~base.DEBUG

====
